---- MODULE Spec2Model ----
(***************************************************************************)
(* Model of the interactive graph engine of quartz (graph.inline.ts, kept  *)
(* in src/quartz/util/theme.ts from line 210 on): the neighbourhood build  *)
(* of renderGraph, the per-mount interaction handlers and frame loop, and  *)
(* the registries of teardown callbacks of the nav handler.                *)
(***************************************************************************)
EXTENDS Integers, Sequences, FiniteSets, TLC

(***************************************************************************)
(* Bounds of the model.                                                    *)
(***************************************************************************)
\* total number of link and tag entries of a content index
MaxEntries == 3
\* largest configured depth (the smallest is -1: "all")
MaxDepth == 2

\* page identifiers (SimpleSlug) and the order Object.entries yields them in
Pages == {"A", "B", "C"}
PageOrder == <<"A", "B", "C">>
\* tag names a page may carry
Tags == {"t"}

\* the worklist marker of renderGraph
Sentinel == "__SENTINEL"
\* what Map.get answers for a missing key
Undefined == "undefined"
\* null
Null == "null"

VARIABLES
  \* ---- inputs of one renderGraph call
  data,            \* content index: slug -> [links, tags]
  slug,            \* focal identifier
  cfgDepth,        \* cfg.depth
  showTags,        \* cfg.showTags
  removeTags,      \* cfg.removeTags
  \* ---- result of the build part of renderGraph
  phase,           \* "input" before the build, "built" after
  neighbourhood,   \* insertion-ordered Set<SimpleSlug>, as a sequence
  graphNodes,      \* graphData.nodes: sequence of node ids
  graphLinks       \* graphData.links: sequence of [source, target]

buildVars == <<data, slug, cfgDepth, showTags, removeTags,
               phase, neighbourhood, graphNodes, graphLinks>>

VARIABLES
  \* ---- configuration of a mount
  enableDrag,        \* cfg.drag
  enableZoom,        \* cfg.zoom
  focusOnHover,      \* cfg.focusOnHover
  opacityScale,      \* cfg.opacityScale, in hundredths
  \* ---- hover state and render records
  hoveredNodeId,     \* string | null
  hoveredNeighbours, \* Set<string>
  nodeActive,        \* nodeRenderData[n].active, by node id
  linkActive,        \* linkRenderData[i].active, by link index
  linkColor,         \* linkRenderData[i].color (name of the css variable)
  labelAlpha,        \* nodeRenderData[n].label.alpha, in hundredths
  oldLabelOpacity,   \* the pointerover/pointerleave closure variable of each node
  tweens,            \* Map<string, TweenNode>: key -> [left, to]
  currentTransform,  \* currentTransform.k, in hundredths
  \* ---- drag gesture
  dragging, dragStartTime, dragStartPos,
  pinned,            \* the node whose fx/fy are set, or null
  now,               \* Date.now()
  pointer,           \* (event.x, event.y) of the latest drag event
  navCount,          \* number of window.spaNavigate calls
  \* ---- simulation (d3-force)
  simAlpha,          \* simulation.alpha() as a level; 0 is below alphaMin
  simAlphaTarget,    \* simulation.alphaTarget() as a level
  simTimer,          \* whether the simulation's internal timer runs
  \* ---- frame loop
  stopAnimation, animationRunning,
  rafPending,        \* animate callbacks requested and not yet run
  frameCount,        \* app.renderer.render calls, modulo FrameMod
  \* ---- popover
  altKeyDown, popoverTimeout, hideTimeout, activePopover,
  domPopovers,       \* ids of the popover elements in document.body
  \* ---- resources released by the teardown callback
  keyListeners,      \* document keydown/keyup listeners attached
  appDestroyCalls    \* number of app.destroy() calls

cfgVars   == <<enableDrag, enableZoom, focusOnHover, opacityScale>>
hoverVars == <<hoveredNodeId, hoveredNeighbours, nodeActive, linkActive>>
styleVars == <<linkColor, labelAlpha, oldLabelOpacity, tweens, currentTransform>>
dragVars  == <<dragging, dragStartTime, dragStartPos, pinned, now, pointer, navCount>>
simVars   == <<simAlpha, simAlphaTarget, simTimer>>
loopVars  == <<stopAnimation, animationRunning, rafPending, frameCount>>
popVars   == <<altKeyDown, popoverTimeout, hideTimeout, activePopover, domPopovers>>
resVars   == <<keyListeners, appDestroyCalls>>

mountVars == <<cfgVars, hoverVars, styleVars, dragVars, simVars, loopVars, popVars, resVars>>

VARIABLES
  \* ---- module state of the nav handler: the mounts of a page
  localGraphCleanups,   \* teardown callbacks of the local graphs, as instance ids
  globalGraphCleanups,  \* teardown callbacks of the global graphs, as instance ids
  instances,            \* every renderGraph that returned: [container, live]
  pending,              \* renderGraph calls being awaited: [kind, origin]
  handlers,             \* nav handler runs whose listeners are registered
  overlayActive         \* class "active" on the global-graph-outer container

lifeVars == <<localGraphCleanups, globalGraphCleanups, instances, pending,
              handlers, overlayActive>>

VARIABLES
  \* ---- the categorisation of one node of the node list
  filePath,          \* details?.filePath, as its path segments; <<>> is undefined
  nodeDatum,         \* <<the flags of the NodeData built from it>>, <<>> before
  \* ---- one call of positionGraphPopover
  client,            \* (clientX, clientY)
  inner,             \* (window.innerWidth, window.innerHeight)
  translate,         \* the <<x, y>> written to el.style.transform, <<>> before
  \* ---- the tween groups of renderNodes, renderLinks, renderLabels
  tweenGroups,       \* every TweenGroup created: [cat, left, playing]
  tweenEntry,        \* tweens map: category key -> index into tweenGroups, 0 if none
  renderStep,        \* position inside renderPixiFromD3
  \* ---- the popovers of the graphs of a page
  popovers,          \* per mount: the popover variables of its closure
  body,              \* popover elements of document.body, in document order
  fetches,           \* showGraphPopover calls awaiting their fetch
  \* ---- the fill colour of one node
  paintNode,         \* <<the node and what the colour depends on>>, <<>> if none
  fill,              \* <<the css variable the circle is filled with>>, <<>> before
  \* ---- the positions pass of the frame callback
  nodePos,           \* simulationData (x, y) by node; <<>> where undefined
  gfxPos,            \* gfx.position by node
  labelPos,          \* label.position by node
  frames,            \* number of frame callbacks run
  \* ---- the steps of one renderGraph call
  mountStep,         \* position inside renderGraph
  cfgBlob,           \* graph.dataset["cfg"]: well-formed JSON or not
  initOutcome,       \* how app.init settles
  \* ---- the neighbourhood loop turn by turn
  worklist,          \* wl
  depthLeft          \* depth, as the loop counts it down

nodeVars  == <<filePath, nodeDatum>>
placeVars == <<client, inner, translate>>
tweenVars == <<tweenGroups, tweenEntry, renderStep>>
docVars   == <<popovers, body, fetches>>
paintVars == <<paintNode, fill>>
posVars   == <<nodePos, gfxPos, labelPos, frames>>
stepVars  == <<mountStep, cfgBlob, initOutcome>>
wlVars    == <<worklist, depthLeft>>
moreVars  == <<paintVars, posVars, stepVars, wlVars>>
restVars  == <<nodeVars, placeVars, tweenVars, docVars, moreVars>>

vars == <<buildVars, mountVars, lifeVars, restVars>>

\* no node is being categorised
NoNode == filePath = <<>> /\ nodeDatum = <<>>
\* no popover is being positioned
NoPlacement == client = <<0, 0>> /\ inner = <<0, 0>> /\ translate = <<>>
\* no tween group exists
NoTweenGroups == tweenGroups = <<>> /\ tweenEntry = <<>> /\ renderStep = "idle"
\* no graph with popovers is mounted
NoDocument == popovers = <<>> /\ body = <<>> /\ fetches = <<>>

\* no node is being painted
NoPaint == paintNode = <<>> /\ fill = <<>>
\* no frame positions anything
NoPositions == nodePos = <<>> /\ gfxPos = <<>> /\ labelPos = <<>> /\ frames = 0
\* no renderGraph call is followed step by step
NoSteps == mountStep = "idle" /\ cfgBlob = "well-formed" /\ initOutcome = "resolves"

\* no neighbourhood loop is followed turn by turn
NoWorklist == worklist = <<>> /\ depthLeft = 0

MoreIdle == NoPaint /\ NoPositions /\ NoSteps /\ NoWorklist

\* only renderGraph's build, one mount, or the nav handler is looked at
RestIdle == NoNode /\ NoPlacement /\ NoTweenGroups /\ NoDocument /\ MoreIdle

(***************************************************************************)
(* Helpers on sequences.                                                   *)
(***************************************************************************)
Range(s) == {s[i] : i \in 1..Len(s)}

RECURSIVE Flatten(_)
Flatten(ss) == IF ss = <<>> THEN <<>> ELSE Head(ss) \o Flatten(Tail(ss))

\* Set.add on an insertion-ordered set
SetAdd(s, x) == IF x \in Range(s) THEN s ELSE Append(s, x)

RECURSIVE SetAddAll(_, _)
SetAddAll(s, xs) == IF xs = <<>> THEN s ELSE SetAddAll(SetAdd(s, Head(xs)), Tail(xs))

(***************************************************************************)
(* renderGraph: link and tag list.                                         *)
(***************************************************************************)
\* simplifySlug(("tags/" + tag) as FullSlug)
TagSlug(tag) == CASE tag = "t" -> "tags/t"
                  [] tag = "u" -> "tags/u"
                  [] OTHER -> "tags/"

\* url.startsWith("tags/")
IsTagSlug(id) == id \in {"tags/t", "tags/u", "tags/"}

\* data.keys() in iteration order
DataKeys(d) == SelectSeq(PageOrder, LAMBDA k : k \in DOMAIN d)

\* details.tags.filter(not removed).map(to tag slug)
LocalTags(details, rm) ==
  LET kept == SelectSeq(details.tags, LAMBDA tag : tag \notin rm)
  IN  [i \in 1..Len(kept) |-> TagSlug(kept[i])]

\* the links one iteration of the loop over data.entries() pushes
LinksOfEntry(d, source, st, rm) ==
  LET outgoing == SelectSeq(d[source].links, LAMBDA dest : dest \in DOMAIN d)
      content  == [i \in 1..Len(outgoing) |-> [source |-> source, target |-> outgoing[i]]]
      lt       == LocalTags(d[source], rm)
      tagged   == [i \in 1..Len(lt) |-> [source |-> source, target |-> lt[i]]]
  IN  content \o (IF st THEN tagged ELSE <<>>)

\* links: SimpleLinkData[] after the loop
BuildLinks(d, st, rm) ==
  LET keys == DataKeys(d)
  IN  Flatten([i \in 1..Len(keys) |-> LinksOfEntry(d, keys[i], st, rm)])

\* tags: SimpleSlug[] after the loop (each entry pushes its tags not yet listed)
RECURSIVE BuildTagsFrom(_, _, _, _)
BuildTagsFrom(d, keys, rm, acc) ==
  IF keys = <<>> THEN acc
  ELSE LET lt == LocalTags(d[Head(keys)], rm)
       IN  BuildTagsFrom(d, Tail(keys), rm,
                         acc \o SelectSeq(lt, LAMBDA tag : tag \notin Range(acc)))

\* BuildTags collecting the tags whatever showTags says
BuildTagsAlways(d, st, rm) == BuildTagsFrom(d, DataKeys(d), rm, <<>>)

BuildTags(d, st, rm) == IF st THEN BuildTagsFrom(d, DataKeys(d), rm, <<>>) ELSE <<>>

(***************************************************************************)
(* renderGraph: neighbourhood worklist.                                    *)
(***************************************************************************)
\* WorklistStep following outgoing links only
WorklistStepDirected(links, st) ==
  LET cur  == Head(st.wl)
      rest == Tail(st.wl)
  IN  IF cur = Sentinel
      THEN [wl |-> Append(rest, Sentinel), depth |-> st.depth - 1, nb |-> st.nb]
      ELSE LET outgoing == SelectSeq(links, LAMBDA l : l.source = cur)
           IN  [wl    |-> rest \o [i \in 1..Len(outgoing) |-> outgoing[i].target],
                depth |-> st.depth,
                nb    |-> SetAdd(st.nb, cur)]

\* WorklistStep with the sentinel leaving depth as it is
WorklistStepKeepsDepth(links, st) ==
  LET cur  == Head(st.wl)
      rest == Tail(st.wl)
  IN  IF cur = Sentinel
      THEN [wl |-> Append(rest, Sentinel), depth |-> st.depth, nb |-> st.nb]
      ELSE LET outgoing == SelectSeq(links, LAMBDA l : l.source = cur)
               incoming == SelectSeq(links, LAMBDA l : l.target = cur)
           IN  [wl    |-> rest \o [i \in 1..Len(outgoing) |-> outgoing[i].target]
                               \o [i \in 1..Len(incoming) |-> incoming[i].source],
                depth |-> st.depth,
                nb    |-> SetAdd(st.nb, cur)]

\* one turn of the while loop: [wl, depth, nb] -> [wl, depth, nb]
WorklistStep(links, st) ==
  LET cur  == Head(st.wl)
      rest == Tail(st.wl)
  IN  IF cur = Sentinel
      THEN [wl |-> Append(rest, Sentinel), depth |-> st.depth - 1, nb |-> st.nb]
      ELSE LET outgoing == SelectSeq(links, LAMBDA l : l.source = cur)
               incoming == SelectSeq(links, LAMBDA l : l.target = cur)
           IN  [wl    |-> rest \o [i \in 1..Len(outgoing) |-> outgoing[i].target]
                               \o [i \in 1..Len(incoming) |-> incoming[i].source],
                depth |-> st.depth,
                nb    |-> SetAdd(st.nb, cur)]

\* WorklistRuns stopping one layer early
WorklistRunsPositive(st) == st.depth > 0 /\ Len(st.wl) > 0

\* the loop test: depth >= 0 && wl.length > 0
WorklistRuns(st) == st.depth >= 0 /\ Len(st.wl) > 0

\* one turn of the loop if its test holds, else nothing
WorklistTurn(links, st) == IF WorklistRuns(st) THEN WorklistStep(links, st) ELSE st

WorklistTurn4(links, st) ==
  WorklistTurn(links, WorklistTurn(links, WorklistTurn(links, WorklistTurn(links, st))))

\* while (depth >= 0 && wl.length > 0): the loop runs turn by turn, the test
\* before each; the recursion takes sixteen turns a level to stay shallow
RECURSIVE WorklistLoop(_, _)
WorklistLoop(links, st) ==
  IF WorklistRuns(st)
  THEN WorklistLoop(links,
         WorklistTurn4(links, WorklistTurn4(links,
           WorklistTurn4(links, WorklistTurn4(links, st)))))
  ELSE st.nb

\* the neighbourhood of renderGraph
Neighbourhood(d, focal, depth, st, rm) ==
  IF depth >= 0
  THEN WorklistLoop(BuildLinks(d, st, rm),
                    [wl |-> <<focal, Sentinel>>, depth |-> depth, nb |-> <<>>])
  ELSE SetAddAll(DataKeys(d), BuildTags(d, st, rm))

(***************************************************************************)
(* renderGraph: node list and graphData.                                   *)
(***************************************************************************)
\* nodes = [...neighbourhood].map(...): one node per identifier, in order
BuildNodes(nb) == nb

\* nodeMap.get(id)
NodeMapGet(nodes, id) == IF id \in Range(nodes) THEN id ELSE Undefined

\* LinkKept testing the source only
LinkKeptSourceOnly(nb, l) == l.source \in Range(nb)

\* the filter of graphData.links
LinkKept(nb, l) == l.source \in Range(nb) /\ l.target \in Range(nb)

\* graphData.links
BuildGraphLinks(links, nb, nodes) ==
  LET kept == SelectSeq(links, LAMBDA l : LinkKept(nb, l))
  IN  [i \in 1..Len(kept) |-> [source |-> NodeMapGet(nodes, kept[i].source),
                               target |-> NodeMapGet(nodes, kept[i].target)]]

(***************************************************************************)
(* Inputs of a build.                                                      *)
(***************************************************************************)
RECURSIVE SeqsUpTo(_, _)
SeqsUpTo(S, n) ==
  IF n = 0 THEN {<<>>}
  ELSE LET shorter == SeqsUpTo(S, n - 1)
       IN  shorter \cup {Append(s, x) : s \in {t \in shorter : Len(t) = n - 1}, x \in S}

\* what one page may carry within a budget of entries
ContentDetails(budget) ==
  {dt \in [links : SeqsUpTo(Pages, budget), tags : SeqsUpTo(Tags, 1)] :
     Len(dt.links) + Len(dt.tags) <= budget}

\* every content index over the pages `keys` with at most `budget` entries
RECURSIVE IndicesOver(_, _)
IndicesOver(keys, budget) ==
  IF keys = {} THEN {<<>>}
  ELSE LET k == CHOOSE x \in keys : TRUE
       IN  UNION {{(k :> dt) @@ rest
                     : rest \in IndicesOver(keys \ {k},
                                            budget - Len(dt.links) - Len(dt.tags))}
                    : dt \in ContentDetails(budget)}

\* every content index over a subset of Pages with at most MaxEntries entries
Indices == UNION {IndicesOver(keys, MaxEntries) : keys \in SUBSET Pages}

(***************************************************************************)
(* Bounds and program constants of a mount.                                *)
(***************************************************************************)
\* entries of the content index behind a mount with the full event set
MountEntries == 1
\* entries of the content index behind a mount in the hover specification
HoverEntries == 2
\* levels of simulation alpha above "below alphaMin"
MaxAlpha == 2
\* time between two animation frames, in ms
FrameMs == 100
\* the modulus frameCount is kept to
FrameMod == 2
\* the clock stops advancing at MaxNow, and advances by TimeStep
MaxNow == 300
TimeStep == 150
\* navigation requests after which no further gesture is modelled
MaxNav == 1
\* invocations of the teardown callback that are modelled
MaxCleanupCalls == 2

\* click thresholds of dragended
ClickTime == 300
ClickDist == 5
\* tween durations of renderLinks, renderNodes, renderLabels
LinkTweenMs == 200
NodeTweenMs == 200
LabelTweenMs == 100
\* alpha values, in hundredths
FullAlpha == 100
DimAlpha == 20

\* zoom scales k within scaleExtent([0.25, 4]), in hundredths
ZoomScales == {25, 100, 400}
\* event coordinates of a drag gesture
Coords == {<<0, 0>>, <<3, 4>>, <<4, 0>>}

Max(a, b) == IF a >= b THEN a ELSE b

(***************************************************************************)
(* updateHoverInfo.                                                        *)
(***************************************************************************)
\* LinkIncident seeing outgoing links only
LinkIncidentSourceOnly(l, id) == l.source = id

\* linkData.source.id === newHoveredId || linkData.target.id === newHoveredId
LinkIncident(l, id) == l.source = id \/ l.target = id

UpdateHoverInfo(newHoveredId) ==
  /\ hoveredNodeId' = newHoveredId
  /\ hoveredNeighbours' =
       IF newHoveredId = Null THEN {}
       ELSE UNION {{graphLinks[i].source, graphLinks[i].target}
                     : i \in {j \in 1..Len(graphLinks)
                                : LinkIncident(graphLinks[j], newHoveredId)}}
  /\ linkActive' = [i \in 1..Len(graphLinks) |->
                      newHoveredId # Null /\ LinkIncident(graphLinks[i], newHoveredId)]
  /\ nodeActive' = [n \in Range(graphNodes) |->
                      newHoveredId # Null /\ n \in hoveredNeighbours']

(***************************************************************************)
(* Frame loop: ensureAnimating and animate.                                *)
(***************************************************************************)
\* NeedsKick without the animationRunning test
NeedsKickWhileRunning(running, stop) == ~stop

\* NeedsKick without the stopAnimation test
NeedsKickAfterStop(running, stop) == ~running

\* the test of ensureAnimating
NeedsKick(running, stop) == ~running /\ ~stop

EnsureAnimating ==
  /\ animationRunning' = (animationRunning \/ NeedsKick(animationRunning, stopAnimation))
  /\ rafPending' = rafPending + (IF NeedsKick(animationRunning, stopAnimation) THEN 1 ELSE 0)
  /\ UNCHANGED <<stopAnimation, frameCount>>

\* simulation.alpha() < simulation.alphaMin()
SimCooled(alpha) == alpha = 0

\* LoopMayStop once every tween has run to completion
LoopMayStopWhenDone(alpha, tw) == SimCooled(alpha) /\ \A k \in DOMAIN tw : tw[k].left = 0

\* the stop test of animate: cooled down and tweens.size === 0
LoopMayStop(alpha, tw) == SimCooled(alpha) /\ DOMAIN tw = {}

\* tweens.forEach((t) => t.update(time)): every running tween advances a frame
TweensAfterFrame(tw) ==
  [k \in DOMAIN tw |-> [tw[k] EXCEPT !.left = Max(@ - FrameMs, 0)]]

\* the label tween writes its end values when it completes
LabelAlphaAfterFrame(tw, la) ==
  IF "label" \in DOMAIN tw /\ tw["label"].left > 0 /\ tw["label"].left <= FrameMs
  THEN tw["label"].to
  ELSE la

\* one run of the frame callback
Animate ==
  /\ rafPending > 0
  /\ IF stopAnimation
     THEN /\ animationRunning' = FALSE
          /\ rafPending' = rafPending - 1
          /\ UNCHANGED <<stopAnimation, frameCount, tweens, labelAlpha>>
     ELSE /\ tweens' = TweensAfterFrame(tweens)
          /\ labelAlpha' = LabelAlphaAfterFrame(tweens, labelAlpha)
          /\ frameCount' = (frameCount + 1) % FrameMod
          /\ IF LoopMayStop(simAlpha, tweens')
             THEN animationRunning' = FALSE /\ rafPending' = rafPending - 1
             ELSE animationRunning' = animationRunning /\ rafPending' = rafPending
          /\ UNCHANGED stopAnimation
  /\ UNCHANGED <<restVars, lifeVars, buildVars, cfgVars, hoverVars, linkColor, oldLabelOpacity,
                 currentTransform, dragVars, simVars, popVars, resVars>>

(***************************************************************************)
(* renderLinks, renderLabels, renderNodes, renderPixiFromD3.  They read    *)
(* the hover state the handler has just written (the primed variables).    *)
(***************************************************************************)
NodeTweenTargets ==
  [n \in DOMAIN nodeActive' |->
     IF hoveredNodeId' # Null /\ focusOnHover
     THEN (IF nodeActive'[n] THEN FullAlpha ELSE DimAlpha)
     ELSE FullAlpha]

LinkTweenTargets ==
  [i \in DOMAIN linkActive' |->
     IF hoveredNodeId' # Null
     THEN (IF linkActive'[i] THEN FullAlpha ELSE DimAlpha)
     ELSE FullAlpha]

LabelTweenTargets ==
  [n \in DOMAIN labelAlpha' |->
     IF hoveredNodeId' = n THEN FullAlpha ELSE labelAlpha'[n]]

RenderPixiFromD3 ==
  /\ linkColor' = [i \in DOMAIN linkActive' |->
                     IF linkActive'[i] THEN "--gray" ELSE "--lightgray"]
  /\ tweens' = [k \in {"hover", "link", "label"} |->
                  CASE k = "hover" -> [left |-> NodeTweenMs, to |-> NodeTweenTargets]
                    [] k = "link"  -> [left |-> LinkTweenMs, to |-> LinkTweenTargets]
                    [] OTHER       -> [left |-> LabelTweenMs, to |-> LabelTweenTargets]]
  /\ EnsureAnimating

\* RenderUnlessDragging without the dragging test
RenderAlways == RenderPixiFromD3

\* if (!dragging) renderPixiFromD3()
RenderUnlessDragging ==
  IF ~dragging THEN RenderPixiFromD3
  ELSE UNCHANGED <<linkColor, tweens, loopVars>>

(***************************************************************************)
(* Popover timers.                                                         *)
(***************************************************************************)
\* document.body after clearGraphPopover removed the active popover
DomAfterClear == IF activePopover # Null THEN domPopovers \ {activePopover} ELSE domPopovers

\* the callback of the timer of scheduleHidePopover: clearGraphPopover()
HideTimerFires ==
  /\ hideTimeout
  /\ popoverTimeout' = Null
  /\ hideTimeout' = FALSE
  /\ activePopover' = Null
  /\ domPopovers' = DomAfterClear
  /\ UNCHANGED <<restVars, lifeVars, buildVars, cfgVars, hoverVars, styleVars, dragVars, simVars,
                 loopVars, altKeyDown, resVars>>

(***************************************************************************)
(* Pointer handlers of a node.                                             *)
(***************************************************************************)
PointerOver(n) ==
  /\ n \in Range(graphNodes)
  /\ hoveredNodeId = Null
  /\ UpdateHoverInfo(n)
  /\ oldLabelOpacity' = [oldLabelOpacity EXCEPT ![n] = labelAlpha[n]]
  /\ labelAlpha' = labelAlpha
  /\ RenderUnlessDragging
  /\ IF altKeyDown
     THEN /\ popoverTimeout' = n
          /\ hideTimeout' = FALSE
          /\ activePopover' = Null
          /\ domPopovers' = DomAfterClear
          /\ UNCHANGED altKeyDown
     ELSE UNCHANGED popVars
  /\ UNCHANGED <<restVars, lifeVars, buildVars, cfgVars, currentTransform, dragVars, simVars, resVars>>

PointerLeave(n) ==
  /\ n \in Range(graphNodes)
  /\ hoveredNodeId = n
  /\ UpdateHoverInfo(Null)
  /\ labelAlpha' = [labelAlpha EXCEPT ![n] = oldLabelOpacity[n]]
  /\ RenderUnlessDragging
  /\ hideTimeout' = TRUE
  /\ UNCHANGED <<altKeyDown, popoverTimeout, activePopover, domPopovers>>
  /\ UNCHANGED <<restVars, lifeVars, buildVars, cfgVars, oldLabelOpacity, currentTransform, dragVars,
                 simVars, resVars>>

\* the click handler registered when drag is disabled
Click(n) ==
  /\ ~enableDrag
  /\ hoveredNodeId = n
  /\ n \in Range(graphNodes)
  /\ navCount < MaxNav
  /\ navCount' = navCount + 1
  /\ UNCHANGED <<dragging, dragStartTime, dragStartPos, pinned, now, pointer>>
  /\ UNCHANGED <<restVars, lifeVars, buildVars, cfgVars, hoverVars, styleVars, simVars, loopVars,
                 popVars, resVars>>

(***************************************************************************)
(* Drag gesture (d3-drag on the canvas, one pointer).                      *)
(***************************************************************************)
\* ClickLike testing the duration only
ClickLikeTimeOnly(duration, dx, dy) == duration < ClickTime

\* Date.now() - dragStartTime < 300 && Math.sqrt(dx * dx + dy * dy) < 5
ClickLike(duration, dx, dy) ==
  duration < ClickTime /\ dx * dx + dy * dy < ClickDist * ClickDist

\* the subject of the gesture is the hovered node; event.active is 0
DragStarted(pos) ==
  /\ enableDrag
  /\ ~dragging
  /\ hoveredNodeId \in Range(graphNodes)
  /\ navCount < MaxNav
  /\ simAlphaTarget' = MaxAlpha
  /\ simTimer' = TRUE
  /\ pinned' = hoveredNodeId
  /\ dragStartTime' = now
  /\ dragStartPos' = pos
  /\ pointer' = pos
  /\ dragging' = TRUE
  /\ UNCHANGED <<now, navCount, simAlpha>>
  /\ UNCHANGED <<restVars, lifeVars, buildVars, cfgVars, hoverVars, styleVars, loopVars, popVars, resVars>>

Dragged(pos) ==
  /\ dragging
  /\ pos # pointer
  /\ pointer' = pos
  /\ UNCHANGED <<dragging, dragStartTime, dragStartPos, pinned, now, navCount>>
  /\ UNCHANGED <<restVars, lifeVars, buildVars, cfgVars, hoverVars, styleVars, simVars, loopVars,
                 popVars, resVars>>

DragEnded ==
  /\ dragging
  /\ simAlphaTarget' = 0
  /\ pinned' = Null
  /\ dragging' = FALSE
  /\ navCount' = IF ClickLike(now - dragStartTime,
                              pointer[1] - dragStartPos[1], pointer[2] - dragStartPos[2])
                 THEN navCount + 1 ELSE navCount
  /\ UNCHANGED <<dragStartTime, dragStartPos, now, pointer, simAlpha, simTimer>>
  /\ UNCHANGED <<restVars, lifeVars, buildVars, cfgVars, hoverVars, styleVars, loopVars, popVars, resVars>>

\* the wall clock
AdvanceTime ==
  /\ now + TimeStep <= MaxNow
  /\ now' = now + TimeStep
  /\ UNCHANGED <<dragging, dragStartTime, dragStartPos, pinned, pointer, navCount>>
  /\ UNCHANGED <<restVars, lifeVars, buildVars, cfgVars, hoverVars, styleVars, simVars, loopVars,
                 popVars, resVars>>

(***************************************************************************)
(* Zoom handler.                                                           *)
(***************************************************************************)
\* Math.max((transform.k * opacityScale - 1) / 3.75, 0), in hundredths
ScaleOpacity(k, os) == Max(((((k * os) \div 100) - 100) * 100) \div 375, 0)

Zoom(k) ==
  /\ enableZoom
  /\ currentTransform' = k
  /\ labelAlpha' = [n \in DOMAIN labelAlpha |->
                      IF nodeActive[n] THEN labelAlpha[n] ELSE ScaleOpacity(k, opacityScale)]
  /\ EnsureAnimating
  /\ UNCHANGED <<linkColor, oldLabelOpacity, tweens>>
  /\ UNCHANGED <<restVars, lifeVars, buildVars, cfgVars, hoverVars, dragVars, simVars, popVars, resVars>>

(***************************************************************************)
(* The simulation's timer: one step, then the "tick" listener.             *)
(***************************************************************************)
AlphaAfterTick(alpha, target) ==
  IF alpha < target THEN alpha + 1 ELSE IF alpha > target THEN alpha - 1 ELSE alpha

SimTick ==
  /\ simTimer
  /\ simAlpha' = AlphaAfterTick(simAlpha, simAlphaTarget)
  /\ simTimer' = ~SimCooled(simAlpha')
  /\ EnsureAnimating
  /\ UNCHANGED simAlphaTarget
  /\ UNCHANGED <<restVars, lifeVars, buildVars, cfgVars, hoverVars, styleVars, dragVars, popVars, resVars>>

(***************************************************************************)
(* The teardown callback renderGraph returns.                              *)
(***************************************************************************)
Cleanup ==
  /\ appDestroyCalls < MaxCleanupCalls
  /\ stopAnimation' = TRUE
  /\ popoverTimeout' = Null
  /\ hideTimeout' = FALSE
  /\ activePopover' = Null
  /\ domPopovers' = DomAfterClear
  /\ keyListeners' = FALSE
  /\ appDestroyCalls' = appDestroyCalls + 1
  /\ UNCHANGED <<animationRunning, rafPending, frameCount, altKeyDown>>
  /\ UNCHANGED <<restVars, lifeVars, buildVars, cfgVars, hoverVars, styleVars, dragVars, simVars>>

(***************************************************************************)
(* The state renderGraph leaves a mount in when it returns.                *)
(***************************************************************************)
MountedStateWith(drag, zoom, focus, scales) ==
  /\ enableDrag = drag
  /\ enableZoom = zoom
  /\ focusOnHover \in focus
  /\ opacityScale \in scales
  /\ hoveredNodeId = Null
  /\ hoveredNeighbours = {}
  /\ nodeActive = [n \in Range(graphNodes) |-> FALSE]
  /\ linkActive = [i \in 1..Len(graphLinks) |-> FALSE]
  /\ linkColor = [i \in 1..Len(graphLinks) |-> "--lightgray"]
  /\ labelAlpha = [n \in Range(graphNodes) |-> 0]
  /\ oldLabelOpacity = [n \in Range(graphNodes) |-> 0]
  /\ tweens = <<>>
  /\ currentTransform = 100
  /\ dragging = FALSE
  /\ dragStartTime = 0
  /\ dragStartPos = <<0, 0>>
  /\ pinned = Null
  /\ now = 0
  /\ pointer = <<0, 0>>
  /\ navCount = 0
  /\ simAlpha \in 0..MaxAlpha
  /\ simAlphaTarget = 0
  /\ simTimer = ~SimCooled(simAlpha)
  /\ stopAnimation = FALSE
  /\ animationRunning = TRUE
  /\ rafPending = 1
  /\ frameCount = 0
  /\ altKeyDown = FALSE
  /\ popoverTimeout = Null
  /\ hideTimeout = FALSE
  /\ activePopover = Null
  /\ domPopovers = {}
  /\ keyListeners = TRUE
  /\ appDestroyCalls = 0

\* a mount with the default configuration, opacityScale 1
MountedState(drag, zoom, focus) == MountedStateWith(drag, zoom, focus, {100})

\* the module state before the nav handler has run
NoLifecycle ==
  /\ localGraphCleanups = <<>>
  /\ globalGraphCleanups = <<>>
  /\ instances = <<>>
  /\ pending = <<>>
  /\ handlers = 0
  /\ overlayActive = FALSE

\* a mount of the whole index (depth -1, tags shown) of one of `indices`
InitMount(indices, drag, zoom, focus) ==
  /\ NoLifecycle
  /\ RestIdle
  /\ data \in indices
  /\ slug = "A"
  /\ cfgDepth = -1
  /\ showTags = TRUE
  /\ removeTags = {}
  /\ phase = "built"
  /\ neighbourhood = Neighbourhood(data, slug, cfgDepth, showTags, removeTags)
  /\ graphNodes = BuildNodes(neighbourhood)
  /\ graphLinks = BuildGraphLinks(BuildLinks(data, showTags, removeTags),
                                  neighbourhood, graphNodes)
  /\ MountedState(drag, zoom, focus)

\* the mount variables where no mount exists
NoMount ==
  /\ enableDrag = FALSE
  /\ enableZoom = FALSE
  /\ focusOnHover = FALSE
  /\ opacityScale = 100
  /\ hoveredNodeId = Null
  /\ hoveredNeighbours = {}
  /\ nodeActive = <<>>
  /\ linkActive = <<>>
  /\ linkColor = <<>>
  /\ labelAlpha = <<>>
  /\ oldLabelOpacity = <<>>
  /\ tweens = <<>>
  /\ currentTransform = 100
  /\ dragging = FALSE
  /\ dragStartTime = 0
  /\ dragStartPos = <<0, 0>>
  /\ pinned = Null
  /\ now = 0
  /\ pointer = <<0, 0>>
  /\ navCount = 0
  /\ simAlpha = 0
  /\ simAlphaTarget = 0
  /\ simTimer = FALSE
  /\ stopAnimation = FALSE
  /\ animationRunning = FALSE
  /\ rafPending = 0
  /\ frameCount = 0
  /\ altKeyDown = FALSE
  /\ popoverTimeout = Null
  /\ hideTimeout = FALSE
  /\ activePopover = Null
  /\ domPopovers = {}
  /\ keyListeners = FALSE
  /\ appDestroyCalls = 0

(***************************************************************************)
(* Specification of the build: renderGraph up to graphData.  The content   *)
(* index is the page's fetchData; the focal slug and the configuration are *)
(* the arguments of one renderGraph call.                                  *)
(***************************************************************************)
InitBuild ==
  /\ data \in Indices
  /\ slug = "A"
  /\ cfgDepth = 0
  /\ showTags = FALSE
  /\ removeTags = {}
  /\ phase = "input"
  /\ neighbourhood = <<>>
  /\ graphNodes = <<>>
  /\ graphLinks = <<>>
  /\ NoMount
  /\ NoLifecycle
  /\ RestIdle

RenderGraphBuild(fullSlug, depth, st, rm) ==
  /\ phase = "input"
  /\ slug' = fullSlug
  /\ cfgDepth' = depth
  /\ showTags' = st
  /\ removeTags' = rm
  /\ neighbourhood' = Neighbourhood(data, fullSlug, depth, st, rm)
  /\ graphNodes' = BuildNodes(neighbourhood')
  /\ graphLinks' = BuildGraphLinks(BuildLinks(data, st, rm), neighbourhood', graphNodes')
  /\ phase' = "built"
  /\ UNCHANGED <<data, mountVars, lifeVars, restVars>>

NextBuild ==
  \E fullSlug \in Pages, depth \in -1..MaxDepth, st \in BOOLEAN, rm \in SUBSET Tags :
    RenderGraphBuild(fullSlug, depth, st, rm)

SpecBuild == InitBuild /\ [][NextBuild]_vars

(***************************************************************************)
(* Specifications of one mount.                                            *)
(***************************************************************************)
\* hovering over the nodes of any small graph
InitHover == InitMount(IndicesOver({"A", "B"}, HoverEntries), FALSE, FALSE, BOOLEAN)

NextHover ==
  \/ \E n \in Range(graphNodes) : PointerOver(n)
  \/ \E n \in Range(graphNodes) : PointerLeave(n)
  \/ Animate
  \/ HideTimerFires

SpecHover == InitHover /\ [][NextHover]_vars

\* a mount with drag enabled and zoom disabled
InitDrag == InitMount(IndicesOver({"A"}, MountEntries), TRUE, FALSE, {FALSE})

NextDrag ==
  \/ \E n \in Range(graphNodes) : PointerOver(n)
  \/ \E n \in Range(graphNodes) : PointerLeave(n)
  \/ \E pos \in Coords : DragStarted(pos)
  \/ \E pos \in Coords : Dragged(pos)
  \/ DragEnded
  \/ AdvanceTime
  \/ SimTick
  \/ Animate
  \/ HideTimerFires

SpecDrag == InitDrag /\ [][NextDrag]_vars

\* a mount with zoom enabled and drag disabled, and its teardown
InitFrame == InitMount(IndicesOver({"A"}, MountEntries), FALSE, TRUE, {TRUE})

NextFrame ==
  \/ \E n \in Range(graphNodes) : PointerOver(n)
  \/ \E n \in Range(graphNodes) : PointerLeave(n)
  \/ \E n \in Range(graphNodes) : Click(n)
  \/ \E k \in ZoomScales : Zoom(k)
  \/ SimTick
  \/ Animate
  \/ HideTimerFires
  \/ Cleanup

SpecFrame == InitFrame /\ [][NextFrame]_vars

\* cfg.opacityScale of the mounts that are zoomed: 1 and 2
OpacityScales == {100, 200}

\* a mount with zoom enabled and any of the opacity scales
InitZoom ==
  /\ NoLifecycle
  /\ RestIdle
  /\ data \in IndicesOver({"A"}, MountEntries)
  /\ slug = "A"
  /\ cfgDepth = -1
  /\ showTags = TRUE
  /\ removeTags = {}
  /\ phase = "built"
  /\ neighbourhood = Neighbourhood(data, slug, cfgDepth, showTags, removeTags)
  /\ graphNodes = BuildNodes(neighbourhood)
  /\ graphLinks = BuildGraphLinks(BuildLinks(data, showTags, removeTags),
                                  neighbourhood, graphNodes)
  /\ MountedStateWith(FALSE, TRUE, {FALSE}, OpacityScales)

NextZoom ==
  \/ \E n \in Range(graphNodes) : PointerOver(n)
  \/ \E n \in Range(graphNodes) : PointerLeave(n)
  \/ \E k \in ZoomScales : Zoom(k)
  \/ SimTick
  \/ Animate

SpecZoom == InitZoom /\ [][NextZoom]_vars

(***************************************************************************)
(* Claims on the build.                                                    *)
(***************************************************************************)
\* the undirected link relation read off the content index: content->content
\* links between indexed pages, and content->tag links when tags are shown
LinkPairs ==
  {<<s, t>> \in (DOMAIN data) \X (DOMAIN data) : t \in Range(data[s].links)}
  \cup (IF showTags
        THEN UNION {{<<s, TagSlug(tag)>> : tag \in Range(data[s].tags) \ removeTags}
                      : s \in DOMAIN data}
        ELSE {})

Adjacent(x) == {p[2] : p \in {q \in LinkPairs : q[1] = x}}
               \cup {p[1] : p \in {q \in LinkPairs : q[2] = x}}

RECURSIVE WithinHops(_)
WithinHops(d) ==
  IF d = 0 THEN {slug}
  ELSE LET prev == WithinHops(d - 1) IN prev \cup UNION {Adjacent(x) : x \in prev}

ExampleIndex ==
  [k \in Pages |-> [links |-> CASE k = "A" -> <<"B">>
                               [] k = "B" -> <<"A", "C">>
                               [] OTHER   -> <<>>,
                    tags  |-> <<>>]]

\* C1: for depth d >= 0 the neighbourhood is exactly the set of identifiers
\* within d undirected hops of the focal id over the content and tag links;
\* depth 0 gives {focal}; the index {A:[B], B:[A,C], C:[]} with focal A gives
\* {A,B} at depth 1 and {A,B,C} at depth 2.
C1_NeighbourhoodIsWithinDepth ==
  (phase = "built" /\ cfgDepth >= 0) =>
    /\ Range(neighbourhood) = WithinHops(cfgDepth)
    /\ cfgDepth = 0 => Range(neighbourhood) = {slug}
    /\ (data = ExampleIndex /\ slug = "A" /\ cfgDepth = 1)
          => Range(neighbourhood) = {"A", "B"}
    /\ (data = ExampleIndex /\ slug = "A" /\ cfgDepth = 2)
          => Range(neighbourhood) = {"A", "B", "C"}

\* a build of the example at depth 2, reaching C through B's incoming link
C1_Witness ==
  /\ phase = "built"
  /\ data = ExampleIndex /\ slug = "A" /\ cfgDepth = 2
  /\ Range(neighbourhood) = {"A", "B", "C"}

\* C2: every link of the built graph has both endpoints in the neighbourhood
\* and resolved to a node of the node list (no undefined endpoint).
C2_LinksInsideNeighbourhood ==
  phase = "built" =>
    \A i \in 1..Len(graphLinks) :
      /\ graphLinks[i].source \in Range(neighbourhood)
      /\ graphLinks[i].target \in Range(neighbourhood)
      /\ graphLinks[i].source \in Range(graphNodes)
      /\ graphLinks[i].target \in Range(graphNodes)
      /\ graphLinks[i].source # Undefined
      /\ graphLinks[i].target # Undefined

\* a build that keeps a link and drops another whose endpoint is outside
C2_Witness ==
  /\ phase = "built"
  /\ Len(graphLinks) > 0
  /\ Len(graphLinks) < Len(BuildLinks(data, showTags, removeTags))

C14_MissingFocalGivesEmptyGraph ==
  phase = "built" /\ slug \notin DOMAIN data =>
    graphNodes = <<>> /\ graphLinks = <<>>

\* the tags of the index that removeTags does not exclude, as tag slugs
ShownTags(d, rm) ==
  UNION {{TagSlug(t) : t \in Range(d[k].tags) \ rm} : k \in DOMAIN d}

C3_TeardownReleasesOnce == appDestroyCalls <= 1

\* C6: once the teardown callback has run, no frame callback renders, ticks a
\* transition or reschedules itself, and no event schedules a frame callback.
C6_NoFrameWorkAfterTeardown ==
  [][stopAnimation =>
       /\ stopAnimation'
       /\ frameCount' = frameCount
       /\ rafPending' <= rafPending
       /\ rafPending' < rafPending => (tweens' = tweens /\ labelAlpha' = labelAlpha)]_vars

\* after teardown the pending frame callback has run and found the loop
\* stopped; a later hover and zoom scheduled no frame
C6_Witness ==
  /\ stopAnimation
  /\ rafPending = 0
  /\ ~animationRunning
  /\ hoveredNodeId # Null
  /\ currentTransform # 100
  /\ \E k \in DOMAIN tweens : tweens[k].left > 0

\* links of the built graph with an end at node a, and the node at the other end
IncidentLinks(a) ==
  {i \in 1..Len(graphLinks) : graphLinks[i].source = a \/ graphLinks[i].target = a}

OtherEnd(i, a) == IF graphLinks[i].source = a THEN graphLinks[i].target
                                               ELSE graphLinks[i].source

ActiveLinks == {i \in DOMAIN linkActive : linkActive[i]}
ActiveNodes == {n \in DOMAIN nodeActive : nodeActive[n]}

\* C7 as stated: while node A is hovered the active links are exactly the links
\* incident to A and the active nodes exactly the nodes at their other ends.
C7_ActiveAreOtherEnds ==
  hoveredNodeId # Null =>
    /\ ActiveLinks = IncidentLinks(hoveredNodeId)
    /\ ActiveNodes = {OtherEnd(i, hoveredNodeId) : i \in IncidentLinks(hoveredNodeId)}

\* C7 as amended: while node A is hovered the active links are exactly the
\* links incident to A, and the active nodes are exactly the nodes at their
\* other ends together with A itself whenever A has an incident link.
C7_ActiveAreEndpoints ==
  hoveredNodeId # Null =>
    /\ ActiveLinks = IncidentLinks(hoveredNodeId)
    /\ ActiveNodes =
         {OtherEnd(i, hoveredNodeId) : i \in IncidentLinks(hoveredNodeId)}
         \cup (IF IncidentLinks(hoveredNodeId) # {} THEN {hoveredNodeId} ELSE {})

\* a hovered node with a neighbour, no self-link, and a third node left inactive
C7_Witness ==
  /\ hoveredNodeId # Null
  /\ IncidentLinks(hoveredNodeId) # {}
  /\ \A i \in IncidentLinks(hoveredNodeId) : OtherEnd(i, hoveredNodeId) # hoveredNodeId
  /\ nodeActive[hoveredNodeId]
  /\ \E n \in Range(graphNodes) : ~nodeActive[n]
  /\ \E i \in 1..Len(graphLinks) : ~linkActive[i]

\* C8: with drag enabled the end of a gesture issues exactly one navigation
\* request if it lasted less than 300 ms and ended less than 5 px from its
\* start, and none otherwise.
C8_ClickIffShortAndNear ==
  [][(enableDrag /\ dragging /\ ~dragging') =>
       LET dx == pointer[1] - dragStartPos[1]
           dy == pointer[2] - dragStartPos[2]
       IN  IF now - dragStartTime < 300 /\ dx * dx + dy * dy < 25
           THEN navCount' = navCount + 1
           ELSE navCount' = navCount]_vars

\* a gesture that moved, stayed a click and navigated
C8_Witness ==
  /\ enableDrag
  /\ ~dragging
  /\ navCount = 1
  /\ pointer # dragStartPos
  /\ now > dragStartTime
  /\ now - dragStartTime < ClickTime

\* C9: a frame that finds the simulation below its energy threshold and every
\* started transition run to completion ends the frame loop: it schedules no
\* further frame callback.
C9_LoopStopsWhenSettled ==
  [][(frameCount' # frameCount
        /\ SimCooled(simAlpha')
        /\ \A k \in DOMAIN tweens' : tweens'[k].left = 0)
       => (rafPending' = 0 /\ ~animationRunning')]_vars

\* C10: at most one frame callback is pending, and one is pending exactly
\* while the loop counts as running.
C10_OneFrameChain ==
  /\ rafPending <= 1
  /\ animationRunning <=> rafPending = 1

\* the loop runs again after the simulation cooled and a zoom rekicked it
C10_Witness ==
  /\ ~stopAnimation
  /\ animationRunning
  /\ rafPending = 1
  /\ SimCooled(simAlpha)
  /\ DOMAIN tweens = {}
  /\ currentTransform # 100
  /\ frameCount = 1

\* C19: a transition that has run to completion is no longer in the set of
\* active transitions: when the latest transition of every category has
\* finished all its interpolations, the tweens map is empty.
C19_CompletedTransitionsLeaveActiveSet ==
  (\A k \in DOMAIN tweens : tweens[k].left = 0) => DOMAIN tweens = {}

(***************************************************************************)
(* The nav handler: the two collections of teardown callbacks and the      *)
(* rebuilds of the local and the global graphs.  A page has one local      *)
(* graph container and one global one.  renderGraph is asynchronous: a     *)
(* call is `pending` from the call until its promise resolves, and the     *)
(* mount exists from then on.  The functions of the handler are operators  *)
(* on the state s = [lc, gc, inst, pend, ov].                              *)
(***************************************************************************)
\* renderGraph calls one page may make
MaxMounts == 5

Containers == {"local", "global"}

LifeState ==
  [lc |-> localGraphCleanups, gc |-> globalGraphCleanups, inst |-> instances,
   pend |-> pending, ov |-> overlayActive]

\* the calls made so far
Started(s) == Len(s.inst) + Len(s.pend)

\* invoking the callbacks `ids`: each tears its instance down
InvokeAll(inst, ids) ==
  [i \in DOMAIN inst |->
     IF i \in Range(ids) THEN [inst[i] EXCEPT !.live = FALSE] ELSE inst[i]]

CleanupLocalGraphs(s) == [s EXCEPT !.inst = InvokeAll(s.inst, s.lc), !.lc = <<>>]

CleanupGlobalGraphs(s) == [s EXCEPT !.inst = InvokeAll(s.inst, s.gc), !.gc = <<>>]

\* renderLocalGraph up to its await
RenderLocalGraph(s, origin) ==
  [CleanupLocalGraphs(s) EXCEPT
     !.pend = Append(@, [kind |-> "local", origin |-> origin])]

\* renderGlobalGraph up to its await
RenderGlobalGraph(s) ==
  [s EXCEPT !.ov = TRUE,
            !.pend = Append(@, [kind |-> "global", origin |-> "open"])]

HideGlobalGraph(s) == [CleanupGlobalGraphs(s) EXCEPT !.ov = FALSE]

ShortcutHandler(s) == IF s.ov THEN HideGlobalGraph(s) ELSE RenderGlobalGraph(s)

\* an event runs the listener of each of the n registered handler runs
RECURSIVE ThemeChangeListeners(_, _)
ThemeChangeListeners(n, s) ==
  IF n = 0 THEN s ELSE ThemeChangeListeners(n - 1, RenderLocalGraph(s, "theme"))

RECURSIVE IconClickListeners(_, _)
IconClickListeners(n, s) ==
  IF n = 0 THEN s ELSE IconClickListeners(n - 1, RenderGlobalGraph(s))

RECURSIVE ShortcutListeners(_, _)
ShortcutListeners(n, s) ==
  IF n = 0 THEN s ELSE ShortcutListeners(n - 1, ShortcutHandler(s))

SetLifeState(s) ==
  /\ localGraphCleanups' = s.lc
  /\ globalGraphCleanups' = s.gc
  /\ instances' = s.inst
  /\ pending' = s.pend
  /\ overlayActive' = s.ov

\* the "nav" event: the host has run the cleanups registered by earlier runs
NavEvent ==
  /\ handlers = 0
  /\ Started(LifeState) < MaxMounts
  /\ SetLifeState(RenderLocalGraph(LifeState, "nav"))
  /\ UNCHANGED <<handlers, buildVars, mountVars, restVars>>

\* the promise of the i-th awaited renderGraph resolves: the callback is
\* pushed, and a nav handler goes on to register its listeners
RenderGraphResolves(i) ==
  /\ i \in DOMAIN pending
  /\ LET task == pending[i]
         id == Len(instances) + 1
     IN /\ instances' = Append(instances, [container |-> task.kind, live |-> TRUE])
        /\ pending' = [j \in 1..(Len(pending) - 1) |->
                         IF j < i THEN pending[j] ELSE pending[j + 1]]
        /\ IF task.kind = "local"
           THEN /\ localGraphCleanups' = Append(localGraphCleanups, id)
                /\ UNCHANGED globalGraphCleanups
           ELSE /\ globalGraphCleanups' = Append(globalGraphCleanups, id)
                /\ UNCHANGED localGraphCleanups
        /\ handlers' = IF task.origin = "nav" THEN handlers + 1 ELSE handlers
  /\ UNCHANGED <<overlayActive, buildVars, mountVars, restVars>>

ThemeChange ==
  /\ handlers > 0
  /\ Started(LifeState) + handlers <= MaxMounts
  /\ SetLifeState(ThemeChangeListeners(handlers, LifeState))
  /\ UNCHANGED <<handlers, buildVars, mountVars, restVars>>

IconClick ==
  /\ handlers > 0
  /\ Started(LifeState) + handlers <= MaxMounts
  /\ SetLifeState(IconClickListeners(handlers, LifeState))
  /\ UNCHANGED <<handlers, buildVars, mountVars, restVars>>

Shortcut ==
  /\ handlers > 0
  /\ Started(LifeState) + handlers <= MaxMounts
  /\ SetLifeState(ShortcutListeners(handlers, LifeState))
  /\ UNCHANGED <<handlers, buildVars, mountVars, restVars>>

\* the escape handler of an open overlay
Escape ==
  /\ overlayActive
  /\ SetLifeState(HideGlobalGraph(LifeState))
  /\ UNCHANGED <<handlers, buildVars, mountVars, restVars>>

\* the host runs the callbacks given to window.addCleanup
WindowCleanup ==
  /\ handlers > 0
  /\ SetLifeState(CleanupGlobalGraphs(CleanupLocalGraphs(LifeState)))
  /\ handlers' = 0
  /\ UNCHANGED <<buildVars, mountVars, restVars>>

\* no renderGraph of this page has been observed from inside
NoBuild ==
  /\ data = <<>>
  /\ slug = "A"
  /\ cfgDepth = 0
  /\ showTags = FALSE
  /\ removeTags = {}
  /\ phase = "input"
  /\ neighbourhood = <<>>
  /\ graphNodes = <<>>
  /\ graphLinks = <<>>

InitLifecycle == NoBuild /\ NoMount /\ NoLifecycle /\ RestIdle

\* navigation and theme changes only
NextRebuild ==
  \/ NavEvent
  \/ \E i \in 1..MaxMounts : RenderGraphResolves(i)
  \/ ThemeChange
  \/ WindowCleanup

SpecRebuild == InitLifecycle /\ [][NextRebuild]_vars

NextLifecycle ==
  \/ NavEvent
  \/ \E i \in 1..MaxMounts : RenderGraphResolves(i)
  \/ ThemeChange
  \/ IconClick
  \/ Shortcut
  \/ Escape
  \/ WindowCleanup

SpecLifecycle == InitLifecycle /\ [][NextLifecycle]_vars

(***************************************************************************)
(* Claims about the nav handler.                                           *)
(***************************************************************************)
Collection(k) == IF k = "local" THEN localGraphCleanups ELSE globalGraphCleanups

Awaited(k, tasks) == Cardinality({i \in DOMAIN tasks : tasks[i].kind = k})

LiveOn(c) == {i \in DOMAIN instances : instances[i].container = c /\ instances[i].live}

\* C4: every step that starts a rebuild of a collection (a new renderGraph
\* call for the local or for the global graphs is awaited) has invoked every
\* teardown callback the collection held and has left the collection empty,
\* so that nothing the collection held is live when the new mount appears.
C4_RebuildTearsDownFirst ==
  [][\A k \in Containers :
       Awaited(k, pending') > Awaited(k, pending)
         => /\ Collection(k)' = <<>>
            /\ \A i \in Range(Collection(k)) : ~instances'[i].live]_vars

\* C5: at every moment every graph container has at most one live instance,
\* whatever the order of nav events, theme changes and resolving renders.
C5_OneLivePerContainer ==
  \A c \in Containers : Cardinality(LiveOn(c)) <= 1

(***************************************************************************)
(* renderGraph: the categorisation of a node by its source path.  A path   *)
(* is the sequence of its segments ("Model/x/a.md" is <<"Model", "x",      *)
(* "a.md">>), so that startsWith(dir + "/") looks at the first segment and *)
(* includes("/" + dir + "/") at the directories after it.                  *)
(***************************************************************************)
\* directories of a source path
MaxDirs == 2

Dirs == {"contents", "Concept", "Dataset", "Library", "Model", "Platform", "Tool", "notes"}

FilePaths == {Append(ds, "a.md") : ds \in SeqsUpTo(Dirs, MaxDirs)} \cup {<<>>}

\* filePath.startsWith(dir + "/")
StartsWithDir(fp, dir) == Len(fp) > 1 /\ fp[1] = dir

\* filePath.includes("/" + dir + "/")
IncludesDir(fp, dir) == \E i \in 2..(Len(fp) - 1) : fp[i] = dir

\* !!filePath && (filePath.startsWith(dir + "/") || filePath.includes("/" + dir + "/"))
UnderDir(fp, dir) == fp # <<>> /\ (StartsWithDir(fp, dir) \/ IncludesDir(fp, dir))

\* the flags of the node the map callback returns
NodeFlags(fp) ==
  [isContentNode       |-> UnderDir(fp, "contents"),
   isConceptTopicNode  |-> UnderDir(fp, "Concept"),
   isDatasetTopicNode  |-> UnderDir(fp, "Dataset"),
   isLibraryTopicNode  |-> UnderDir(fp, "Library"),
   isModelTopicNode    |-> UnderDir(fp, "Model"),
   isPlatformTopicNode |-> UnderDir(fp, "Platform"),
   isToolTopicNode     |-> UnderDir(fp, "Tool")]

CategoriseNode ==
  /\ nodeDatum = <<>>
  /\ nodeDatum' = <<NodeFlags(filePath)>>
  /\ UNCHANGED <<filePath, placeVars, tweenVars, docVars, buildVars, mountVars, lifeVars, moreVars>>

InitCategorise ==
  /\ NoBuild /\ NoMount /\ NoLifecycle
  /\ NoPlacement /\ NoTweenGroups /\ NoDocument /\ MoreIdle
  /\ filePath \in FilePaths
  /\ nodeDatum = <<>>

NextCategorise == CategoriseNode

SpecCategorise == InitCategorise /\ [][NextCategorise]_vars

TopicFlags == {"isConceptTopicNode", "isDatasetTopicNode", "isLibraryTopicNode",
               "isModelTopicNode", "isPlatformTopicNode", "isToolTopicNode"}

\* C16: every node has at most one topic category, and a node whose source
\* path has the segment "Model/" is a modelTopic node and of no other topic
\* category.
C16_OneTopicCategory ==
  nodeDatum # <<>> =>
    LET topics == {t \in TopicFlags : nodeDatum[1][t]}
    IN  /\ Cardinality(topics) <= 1
        /\ (\E i \in 1..(Len(filePath) - 1) : filePath[i] = "Model")
             => topics = {"isModelTopicNode"}

(***************************************************************************)
(* positionGraphPopover.  Coordinates are whole pixels, which Math.round   *)
(* leaves as they are.                                                     *)
(***************************************************************************)
PopoverWidth == 400
PopoverMaxHeight == 300
Margin == 10

\* the cursor positions looked at lie on a grid of this many pixels
CursorStep == 100

InnerWidths == {800, 1280}
InnerHeights == {600, 720}

GridUpTo(n) == {i * CursorStep : i \in 0..(n \div CursorStep)}

\* the (x, y) of the transform positionGraphPopover writes
PositionGraphPopover(clientX, clientY, innerWidth, innerHeight) ==
  LET x0 == clientX + Margin
      y0 == clientY + Margin
      x  == IF x0 + PopoverWidth > innerWidth THEN clientX - PopoverWidth - Margin ELSE x0
      y  == IF y0 + PopoverMaxHeight > innerHeight
            THEN clientY - PopoverMaxHeight - Margin ELSE y0
  IN  <<x, y>>

PositionPopover ==
  /\ translate = <<>>
  /\ translate' = PositionGraphPopover(client[1], client[2], inner[1], inner[2])
  /\ UNCHANGED <<client, inner, nodeVars, tweenVars, docVars, buildVars, mountVars, lifeVars, moreVars>>

InitPosition ==
  /\ NoBuild /\ NoMount /\ NoLifecycle
  /\ NoNode /\ NoTweenGroups /\ NoDocument /\ MoreIdle
  /\ inner \in InnerWidths \X InnerHeights
  /\ client \in GridUpTo(inner[1]) \X GridUpTo(inner[2])
  /\ translate = <<>>

NextPosition == PositionPopover

SpecPosition == InitPosition /\ [][NextPosition]_vars

\* C17: a positioned popover (400 wide, 300 high, translated to (x, y)) lies
\* inside the viewport, for every cursor position inside the viewport.
C17_PopoverInsideViewport ==
  translate # <<>> =>
    /\ 0 <= translate[1]
    /\ translate[1] + 400 <= inner[1]
    /\ 0 <= translate[2]
    /\ translate[2] + 300 <= inner[2]

(***************************************************************************)
(* renderNodes, renderLinks, renderLabels as the three steps of            *)
(* renderPixiFromD3, with every tween group they create.  A group is       *)
(* playing from start() until stop() or until its tweens have completed.   *)
(***************************************************************************)
\* tween groups created on one mount
MaxTweenGroups == 9

Categories == {"hover", "link", "label"}

TweenMs(cat) == CASE cat = "hover" -> NodeTweenMs
                  [] cat = "link"  -> LinkTweenMs
                  [] OTHER         -> LabelTweenMs

\* StopTween stopping nothing
StopNothing(groups, i) == groups

\* tweens.get(cat)?.stop(): the tweens of the group under the key stop
StopTween(groups, i) ==
  IF i = 0 THEN groups ELSE [groups EXCEPT ![i].playing = FALSE]

\* stop the group under the key, start a new one, store it under the key
RestartTween(cat, next) ==
  /\ tweenGroups' = Append(StopTween(tweenGroups, tweenEntry[cat]),
                           [cat |-> cat, left |-> TweenMs(cat), playing |-> TRUE])
  /\ tweenEntry' = [tweenEntry EXCEPT ![cat] = Len(tweenGroups) + 1]
  /\ renderStep' = next
  /\ UNCHANGED <<nodeVars, placeVars, docVars, buildVars, mountVars, lifeVars, moreVars>>

\* renderPixiFromD3 calls renderNodes first
RenderNodes ==
  /\ renderStep = "idle"
  /\ Len(tweenGroups) + Cardinality(Categories) <= MaxTweenGroups
  /\ RestartTween("hover", "links")

RenderLinks == renderStep = "links" /\ RestartTween("link", "labels")

RenderLabels == renderStep = "labels" /\ RestartTween("label", "idle")

\* time a frame may take, in ms
FrameTimes == {FrameMs \div 2, FrameMs}

\* tweens.forEach((t) => t.update(time)) of a frame dt after the last one
UpdateTweens(dt) ==
  /\ renderStep = "idle"
  /\ \E cat \in Categories : tweenEntry[cat] # 0 /\ tweenGroups[tweenEntry[cat]].playing
  /\ tweenGroups' =
       [i \in DOMAIN tweenGroups |->
          IF tweenEntry[tweenGroups[i].cat] = i /\ tweenGroups[i].playing
          THEN [tweenGroups[i] EXCEPT !.left = Max(@ - dt, 0),
                                      !.playing = (tweenGroups[i].left > dt)]
          ELSE tweenGroups[i]]
  /\ UNCHANGED <<tweenEntry, renderStep, nodeVars, placeVars, docVars,
                 buildVars, mountVars, lifeVars, moreVars>>

InitTweens ==
  /\ NoBuild /\ NoMount /\ NoLifecycle
  /\ NoNode /\ NoPlacement /\ NoDocument /\ MoreIdle
  /\ tweenGroups = <<>>
  /\ tweenEntry = [cat \in Categories |-> 0]
  /\ renderStep = "idle"

NextTweens ==
  \/ RenderNodes
  \/ RenderLinks
  \/ RenderLabels
  \/ \E dt \in FrameTimes : UpdateTweens(dt)

SpecTweens == InitTweens /\ [][NextTweens]_vars

Playing(groups, cat) == {i \in DOMAIN groups : groups[i].cat = cat /\ groups[i].playing}

\* C20: at most one transition of a category is in flight at any time, since
\* starting one stops the one in flight; and a step that starts a transition
\* of one category stops no transition of another category.
C20_OneTransitionPerCategory ==
  /\ [](\A cat \in Categories : Cardinality(Playing(tweenGroups, cat)) <= 1)
  /\ [][Len(tweenGroups') > Len(tweenGroups) =>
          \A i \in DOMAIN tweenGroups :
            tweenGroups[i].playing /\ ~tweenGroups'[i].playing
              => tweenGroups[i].cat = tweenGroups'[Len(tweenGroups')].cat]_vars

\* a node transition stopped half way by its successor while the link
\* transition started with it is still in flight
C20_Witness ==
  \E i, j, k \in DOMAIN tweenGroups :
    /\ tweenGroups[i].cat = "hover" /\ ~tweenGroups[i].playing /\ tweenGroups[i].left > 0
    /\ tweenGroups[j].cat = "link" /\ tweenGroups[j].playing /\ j < k
    /\ tweenGroups[k].cat = "hover" /\ tweenGroups[k].playing

(***************************************************************************)
(* Popovers.  Each mounted graph has its own closure variables; the        *)
(* popover elements live in the one document.body, where getElementById    *)
(* answers the first element with the id.  Both graphs of a page are built *)
(* for the same fullSlug, so a node has the same popover id in both.  The  *)
(* fetch of showGraphPopover is answered by the network at any later time. *)
(***************************************************************************)
\* showGraphPopover calls that reach their fetch
MaxShows == 2

\* the timer of onKeyDown reads hoveredNodeId when it fires
ReadsHovered == "hoveredNodeId"

\* what the network may answer: a rejection, or a response with a status, a
\* Content-Type and a body with or without popover-hint elements
Responses == {"rejected", "200 html hints", "200 html plain", "200 json",
              "404 html hints", "404 json"}

IsRejected(r) == r = "rejected"
\* response.ok
IsOk(r) == r \in {"200 html hints", "200 html plain", "200 json"}
\* contentType.startsWith("text/html")
ContentIsHtml(r) == r \in {"200 html hints", "200 html plain", "404 html hints"}
\* elts.length > 0
HasPopoverHint(r) == r \in {"200 html hints", "404 html hints"}

\* the awaits and early returns of showGraphPopover: does it reach appendChild
ReachesAppend(r) == ~IsRejected(r) /\ ContentIsHtml(r) /\ HasPopoverHint(r)

\* ClearTimeout leaving the timer pending
ClearTimeoutLate(count, held) == count

\* if (handle) clearTimeout(handle): `count` is the number of timers of one kind
\* that are set and have not fired; `held` says the variable holds one
ClearTimeout(count, held) == IF held THEN count - 1 ELSE count

\* clearGraphPopover on the closure variables
ClearGraphPopover(c) ==
  [c EXCEPT !.showPending = ClearTimeout(@, c.popoverTimeout # Null),
            !.popoverTimeout = Null,
            !.hidePending = ClearTimeout(@, c.hideTimeout),
            !.hideTimeout = FALSE,
            !.activePopover = 0]

\* scheduleHidePopover
ScheduleHidePopover(c) ==
  [c EXCEPT !.hidePending = ClearTimeout(@, c.hideTimeout) + 1, !.hideTimeout = TRUE]

\* cancelHidePopover
CancelHidePopover(c) ==
  [c EXCEPT !.hidePending = ClearTimeout(@, c.hideTimeout), !.hideTimeout = FALSE]

\* popoverTimeout = setTimeout(() => showGraphPopover(arg, ...), 300)
SetPopoverTimeout(c, arg) ==
  [c EXCEPT !.popoverTimeout = arg, !.showPending = @ + 1]

\* a timer that fires is no longer pending, and clearing its handle does nothing
ShowTimerFired(c) == [c EXCEPT !.showPending = @ - 1, !.popoverTimeout = Null]
HideTimerFired(c) == [c EXCEPT !.hidePending = @ - 1, !.hideTimeout = FALSE]

\* activePopover.remove()
BodyAfterClear(c, b) == SelectSeq(b, LAMBDA el : el.eid # c.activePopover)

\* document.getElementById(popoverId): the eid of the first match, 0 if none
GetElementById(b, id) ==
  LET hits == SelectSeq(b, LAMBDA el : el.id = id)
  IN  IF hits = <<>> THEN 0 ELSE hits[1].eid

DocUnchanged == UNCHANGED <<nodeVars, placeVars, tweenVars, buildVars, mountVars, lifeVars, moreVars>>

\* pointerover on node n of graph m (the pointer is over one node at most)
OverNode(m, n) ==
  /\ popovers[m].mounted
  /\ \A o \in DOMAIN popovers : popovers[o].hoveredNodeId = Null
  /\ LET c == [popovers[m] EXCEPT !.hoveredNodeId = n]
     IN  IF c.altKeyDown
         THEN /\ popovers' = [popovers EXCEPT
                                ![m] = SetPopoverTimeout(ClearGraphPopover(c), n)]
              /\ body' = BodyAfterClear(c, body)
         ELSE /\ popovers' = [popovers EXCEPT ![m] = c]
              /\ body' = body
  /\ UNCHANGED fetches
  /\ DocUnchanged

\* pointerleave: updateHoverInfo(null), scheduleHidePopover()
LeaveNode(m) ==
  /\ popovers[m].mounted
  /\ popovers[m].hoveredNodeId # Null
  /\ popovers' = [popovers EXCEPT
                    ![m] = ScheduleHidePopover([popovers[m] EXCEPT !.hoveredNodeId = Null])]
  /\ UNCHANGED <<body, fetches>>
  /\ DocUnchanged

\* onKeyDown of one closure
OnKeyDown(c) ==
  IF c.hoveredNodeId # Null /\ c.activePopover = 0
  THEN SetPopoverTimeout([ClearGraphPopover(c) EXCEPT !.altKeyDown = TRUE], ReadsHovered)
  ELSE [c EXCEPT !.altKeyDown = TRUE]

\* keydown of Alt on the document: the listener of every mounted graph runs
AltKeyDown ==
  /\ popovers' = [m \in DOMAIN popovers |->
                    IF popovers[m].mounted THEN OnKeyDown(popovers[m]) ELSE popovers[m]]
  /\ popovers' # popovers
  /\ UNCHANGED <<body, fetches>>
  /\ DocUnchanged

AltKeyUp ==
  /\ popovers' = [m \in DOMAIN popovers |->
                    IF popovers[m].mounted
                    THEN [popovers[m] EXCEPT !.altKeyDown = FALSE] ELSE popovers[m]]
  /\ popovers' # popovers
  /\ UNCHANGED <<body, fetches>>
  /\ DocUnchanged

\* the 300 ms timer of pointerover or onKeyDown fires: showGraphPopover up
\* to its first await.  A null node id makes resolveRelative throw after
\* clearGraphPopover has run.
PopoverTimerFires(m) ==
  /\ popovers[m].popoverTimeout # Null
  /\ LET nodeId   == IF popovers[m].popoverTimeout = ReadsHovered
                     THEN popovers[m].hoveredNodeId ELSE popovers[m].popoverTimeout
         c        == ClearGraphPopover(ShowTimerFired(popovers[m]))
         b        == BodyAfterClear(popovers[m], body)
         existing == GetElementById(b, nodeId)
     IN  /\ body' = b
         /\ IF nodeId = Null
            THEN popovers' = [popovers EXCEPT ![m] = c] /\ UNCHANGED fetches
            ELSE IF existing # 0
            THEN /\ popovers' = [popovers EXCEPT ![m] = [c EXCEPT !.activePopover = existing]]
                 /\ UNCHANGED fetches
            ELSE /\ Len(fetches) < MaxShows
                 /\ popovers' = [popovers EXCEPT ![m] = c]
                 /\ fetches' = Append(fetches, [mount |-> m, nodeId |-> nodeId,
                                                response |-> "pending", done |-> FALSE])
  /\ DocUnchanged

\* the network answers the fetch of call t
FetchSettles(t, r) ==
  /\ t \in DOMAIN fetches
  /\ fetches[t].response = "pending"
  /\ fetches' = [fetches EXCEPT ![t].response = r]
  /\ UNCHANGED <<popovers, body>>
  /\ DocUnchanged

\* showGraphPopover goes on after its awaits
ShowGraphPopoverResumes(t) ==
  /\ t \in DOMAIN fetches
  /\ fetches[t].response # "pending"
  /\ ~fetches[t].done
  /\ fetches' = [fetches EXCEPT ![t].done = TRUE]
  /\ IF ReachesAppend(fetches[t].response)
     THEN /\ body' = Append(body, [id |-> fetches[t].nodeId, eid |-> t,
                                   owner |-> fetches[t].mount])
          /\ popovers' = [popovers EXCEPT ![fetches[t].mount].activePopover = t]
     ELSE UNCHANGED <<body, popovers>>
  /\ DocUnchanged

\* the timer of scheduleHidePopover fires
HideTimeoutFires(m) ==
  /\ popovers[m].hideTimeout
  /\ popovers' = [popovers EXCEPT ![m] = ClearGraphPopover(HideTimerFired(popovers[m]))]
  /\ body' = BodyAfterClear(popovers[m], body)
  /\ UNCHANGED fetches
  /\ DocUnchanged

\* mouseenter on a popover element: cancelHidePopover of the closure that made it
PopoverMouseEnter(i) ==
  /\ i \in DOMAIN body
  /\ popovers[body[i].owner].hideTimeout
  /\ popovers' = [popovers EXCEPT
                    ![body[i].owner] = CancelHidePopover(popovers[body[i].owner])]
  /\ UNCHANGED <<body, fetches>>
  /\ DocUnchanged

\* mouseleave on a popover element: scheduleHidePopover of the closure that made it
PopoverMouseLeave(i) ==
  /\ i \in DOMAIN body
  /\ popovers' = [popovers EXCEPT
                    ![body[i].owner] = ScheduleHidePopover(popovers[body[i].owner])]
  /\ popovers' # popovers
  /\ UNCHANGED <<body, fetches>>
  /\ DocUnchanged

\* the teardown callback of graph m: clearGraphPopover, key listeners removed
TearDown(m) ==
  /\ popovers[m].mounted
  /\ popovers' = [popovers EXCEPT ![m] = [ClearGraphPopover(popovers[m]) EXCEPT
                                            !.mounted = FALSE]]
  /\ body' = BodyAfterClear(popovers[m], body)
  /\ UNCHANGED fetches
  /\ DocUnchanged

\* the closure variables when renderGraph returns
NewClosure(isMounted) ==
  [mounted |-> isMounted, hoveredNodeId |-> Null, altKeyDown |-> FALSE,
   popoverTimeout |-> Null, hideTimeout |-> FALSE, activePopover |-> 0,
   showPending |-> 0, hidePending |-> 0]

\* graphs with the nodes `nodes`, those in `mountedGraphs` mounted
InitDocument(nodes, mountedGraphs) ==
  /\ NoMount /\ NoLifecycle
  /\ NoNode /\ NoPlacement /\ NoTweenGroups /\ MoreIdle
  /\ data = <<>>
  /\ slug = "A"
  /\ cfgDepth = 0
  /\ showTags = FALSE
  /\ removeTags = {}
  /\ phase = "built"
  /\ neighbourhood = nodes
  /\ graphNodes = nodes
  /\ graphLinks = <<>>
  /\ popovers = [m \in Containers |-> NewClosure(m \in mountedGraphs)]
  /\ body = <<>>
  /\ fetches = <<>>

NextDocument ==
  \/ \E m \in Containers, n \in Range(graphNodes) : OverNode(m, n)
  \/ \E m \in Containers : LeaveNode(m)
  \/ AltKeyDown
  \/ AltKeyUp
  \/ \E m \in Containers : PopoverTimerFires(m)
  \/ \E t \in 1..MaxShows, r \in Responses : FetchSettles(t, r)
  \/ \E t \in 1..MaxShows : ShowGraphPopoverResumes(t)
  \/ \E m \in Containers : HideTimeoutFires(m)
  \/ \E i \in 1..MaxShows : PopoverMouseEnter(i)
  \/ \E i \in 1..MaxShows : PopoverMouseLeave(i)
  \/ \E m \in Containers : TearDown(m)

\* one graph with two nodes
InitPopover == InitDocument(<<"A", "B">>, {"local"})

SpecPopover == InitPopover /\ [][NextDocument]_vars

\* the local and the global graph of a page, each showing the focal node
InitTwoGraphs == InitDocument(<<"A">>, Containers)

SpecTwoGraphs == InitTwoGraphs /\ [][NextDocument]_vars

\* C11: a showGraphPopover call whose fetch rejected, answered with a
\* non-success status or answered with a Content-Type other than HTML mounts
\* no popover element when it goes on.
C11_FailedFetchMountsNothing ==
  [][\A t \in DOMAIN fetches :
       /\ ~fetches[t].done
       /\ fetches'[t].done
       /\ \/ IsRejected(fetches[t].response)
          \/ ~IsOk(fetches[t].response)
          \/ ~ContentIsHtml(fetches[t].response)
       => body' = body]_vars

\* C12: at every moment document.body holds at most one popover element per
\* target address.
C12_OnePopoverPerAddress ==
  \A i, j \in DOMAIN body : body[i].id = body[j].id => i = j

\* C18: no graph ever takes hold of a popover element that the other graph
\* mounted, so it neither reuses, repositions nor removes it.
C18_PopoversStayWithTheirGraph ==
  \A m \in DOMAIN popovers : \A i \in DOMAIN body :
    popovers[m].activePopover = body[i].eid => body[i].owner = m

\* C21: each graph has at most one popover show timer and at most one
\* popover hide timer pending at any time, every scheduling having cleared
\* the pending timer of its kind first.
C21_OneTimerOfAKind ==
  \A m \in DOMAIN popovers :
    popovers[m].showPending <= 1 /\ popovers[m].hidePending <= 1

\* the pointer left while the show timer was pending: one timer of each kind
C21_Witness ==
  \E m \in DOMAIN popovers :
    /\ popovers[m].hoveredNodeId = Null
    /\ popovers[m].showPending = 1
    /\ popovers[m].hidePending = 1

\* C22: the release of the modifier key, like the pointer leaving the
\* hovered node, schedules a delayed hide of the popover: after either event
\* the hide timer of the graph is pending.
C22_LeaveAndKeyUpScheduleHide ==
  [][\A m \in DOMAIN popovers :
       /\ popovers[m].mounted
       /\ \/ popovers[m].hoveredNodeId # Null /\ popovers'[m].hoveredNodeId = Null
          \/ popovers[m].altKeyDown /\ ~popovers'[m].altKeyDown
       => popovers'[m].hideTimeout /\ popovers'[m].hidePending = 1]_vars

\* C28: a graph that was torn down never adds a popover element to the
\* document afterwards, a fetch started before the teardown and settled after
\* it included: every element added is added by a graph that is still mounted.
C28_NoPopoverAfterTeardown ==
  [][\A t \in DOMAIN fetches :
       /\ ~fetches[t].done
       /\ fetches'[t].done
       /\ Len(body') > Len(body)
       => popovers[fetches[t].mount].mounted]_vars

\* the pointer and the modifier key over one graph, the timers and the
\* network: the pointer never enters a popover and the graph stays mounted
NextPointer ==
  \/ \E m \in Containers, n \in Range(graphNodes) : OverNode(m, n)
  \/ \E m \in Containers : LeaveNode(m)
  \/ AltKeyDown
  \/ AltKeyUp
  \/ \E m \in Containers : PopoverTimerFires(m)
  \/ \E t \in 1..MaxShows, r \in Responses : FetchSettles(t, r)
  \/ \E t \in 1..MaxShows : ShowGraphPopoverResumes(t)
  \/ \E m \in Containers : HideTimeoutFires(m)

SpecPointer == InitPopover /\ [][NextPointer]_vars

\* nothing but input can happen any more to graph m
Settled(m) ==
  /\ popovers[m].popoverTimeout = Null
  /\ ~popovers[m].hideTimeout
  /\ \A t \in DOMAIN fetches : fetches[t].mount = m => fetches[t].done

\* C27: once the pointer has left the node and no input follows, the popover
\* of that hover goes away, also when the pointer left before the show timer
\* fired or before the fetch settled: when no node of a graph is hovered, no
\* timer of the graph is pending and none of its fetches is in flight, the
\* document holds no popover of the graph.
C27_PopoverGoesAfterLeave ==
  \A m \in DOMAIN popovers :
    popovers[m].hoveredNodeId = Null /\ Settled(m)
      => \A i \in DOMAIN body : body[i].owner # m

\* C29: whenever the global overlay is closed, no global graph is live and
\* the collection of global teardown callbacks is empty, also when the close
\* arrived while the build of an open was still awaited.
C29_ClosedOverlayHasNoGraph ==
  ~overlayActive => LiveOn("global") = {} /\ globalGraphCleanups = <<>>

\* the link, node and label transitions have just been restarted towards the
\* targets of the new active sets
RestartedTowardsActiveSets ==
  /\ DOMAIN tweens' = {"hover", "link", "label"}
  /\ tweens'["hover"].left = NodeTweenMs
  /\ tweens'["link"].left = LinkTweenMs
  /\ tweens'["label"].left = LabelTweenMs
  /\ \A n \in DOMAIN nodeActive' :
       /\ tweens'["hover"].to[n] =
            IF hoveredNodeId' # Null /\ focusOnHover /\ ~nodeActive'[n]
            THEN DimAlpha ELSE FullAlpha
       /\ tweens'["label"].to[n] =
            IF hoveredNodeId' = n THEN FullAlpha ELSE labelAlpha'[n]
  /\ \A i \in DOMAIN linkActive' :
       tweens'["link"].to[i] =
         IF hoveredNodeId' # Null /\ ~linkActive'[i] THEN DimAlpha ELSE FullAlpha

\* C23 as stated: every pointer-over and every pointer-leave restarts the
\* link, node and label transitions towards the targets of the new active
\* sets, whether or not a drag is in progress.
C23_EveryHoverChangeRestartsTransitions ==
  [][hoveredNodeId' # hoveredNodeId => RestartedTowardsActiveSets]_vars

\* C23: every pointer-over and every pointer-leave outside a drag restarts the
\* link, node and label transitions towards the targets of the new active
\* sets; during a drag the event updates the hover state and the active sets
\* and leaves the transitions as they were.
C23_HoverChangeRestartsUnlessDragging ==
  [][hoveredNodeId' # hoveredNodeId =>
       IF dragging THEN tweens' = tweens ELSE RestartedTowardsActiveSets]_vars

\* the pointer left the node during a drag: the label transition still aims
\* at the highlight of a node that is no longer hovered
C23_Witness ==
  /\ dragging
  /\ hoveredNodeId = Null
  /\ "label" \in DOMAIN tweens
  /\ \E n \in DOMAIN nodeActive :
       tweens["label"].to[n] = FullAlpha /\ labelAlpha[n] # FullAlpha

(***************************************************************************)
(* The fill colour of a node: color(d) and the fill of its circle.  A      *)
(* colour is the name of the css variable it is read from.                 *)
(***************************************************************************)
\* the css variables a theme may leave undefined
OptionalTokens == {"--tagNode", "--contentNode"}

\* computedStyleMap[token] || computedStyleMap[fallback]
OrElse(defined, token, fallback) == IF token \in defined THEN token ELSE fallback

tagFillColor(defined) == OrElse(defined, "--tagNode", "--light")

contentFillColor(defined) == OrElse(defined, "--contentNode", "--secondary")

\* d.id.startsWith("tags/")
StartsWithTags(id) == id \in {TagSlug(t) : t \in Tags}

color(d, focal, visited, defined) ==
  IF d.id = focal THEN "--secondary"
  ELSE IF StartsWithTags(d.id) THEN "--tertiary"
  ELSE IF d.id \in visited THEN "--tertiary"
  ELSE IF d.flags.isContentNode THEN contentFillColor(defined)
  ELSE IF d.flags.isConceptTopicNode THEN "--conceptTopicNode"
  ELSE IF d.flags.isDatasetTopicNode THEN "--datasetTopicNode"
  ELSE IF d.flags.isLibraryTopicNode THEN "--libraryTopicNode"
  ELSE IF d.flags.isModelTopicNode THEN "--modelTopicNode"
  ELSE IF d.flags.isPlatformTopicNode THEN "--platformTopicNode"
  ELSE IF d.flags.isToolTopicNode THEN "--toolTopicNode"
  ELSE "--gray"

\* .fill({ color: isTagNode ? tagFillColor : color(n) })
FillOf(d, focal, visited, defined) ==
  IF StartsWithTags(d.id) THEN tagFillColor(defined)
  ELSE color(d, focal, visited, defined)

\* the circle of the node is created and filled
FillNode ==
  /\ paintNode # <<>>
  /\ fill = <<>>
  /\ fill' = <<FillOf(paintNode[1], slug, paintNode[1].visited, paintNode[1].defined)>>
  /\ UNCHANGED <<paintNode, posVars, stepVars, wlVars, nodeVars, placeVars, tweenVars, docVars,
                 buildVars, mountVars, lifeVars>>

\* the identifiers of the nodes painted: two pages and a tag
PaintIds == {"A", "B"} \cup {TagSlug(t) : t \in Tags}

\* one node of a graph whose focal page is a page or a tag page
InitColour ==
  /\ NoMount /\ NoLifecycle
  /\ NoNode /\ NoPlacement /\ NoTweenGroups /\ NoDocument
  /\ NoPositions /\ NoSteps /\ NoWorklist
  /\ data = <<>>
  /\ slug \in {"A"} \cup {TagSlug(t) : t \in Tags}
  /\ cfgDepth = 0
  /\ showTags = TRUE
  /\ removeTags = {}
  /\ phase = "built"
  /\ neighbourhood = <<>>
  /\ graphNodes = <<>>
  /\ graphLinks = <<>>
  /\ paintNode \in {<<[id |-> i, flags |-> NodeFlags(fp), visited |-> v, defined |-> d]>> :
                      i \in PaintIds, fp \in FilePaths,
                      v \in {{}, PaintIds}, d \in SUBSET OptionalTokens}
  /\ fill = <<>>

NextColour == FillNode

SpecColour == InitColour /\ [][NextColour]_vars

\* C24: the fill colour of a node is that of the first rule it matches, in
\* the order focal, tag, visited, structural category, default; so the focal
\* node is filled with the focal colour whatever else holds of it.
C24_FocalFirst ==
  fill # <<>> =>
    LET d == paintNode[1]
    IN  IF d.id = slug THEN fill[1] = "--secondary"
        ELSE IF StartsWithTags(d.id) THEN fill[1] \in {"--tagNode", "--light", "--tertiary"}
        ELSE IF d.id \in d.visited THEN fill[1] = "--tertiary"
        ELSE IF \E f \in DOMAIN d.flags : d.flags[f]
             THEN fill[1] \notin {"--tertiary", "--gray", "--tagNode", "--light"}
        ELSE fill[1] = "--gray"

\* C25: for every zoom scale from 0.25 to 4 and every configured opacity
\* scale, a zoom event gives the label of every node that is not active an
\* opacity between 0 and 1 and leaves the opacity of the labels of active
\* nodes as it was.
C25_ZoomOpacityInUnitRange ==
  [][currentTransform' # currentTransform =>
       \A n \in DOMAIN labelAlpha :
         IF nodeActive[n] THEN labelAlpha'[n] = labelAlpha[n]
         ELSE labelAlpha'[n] >= 0 /\ labelAlpha'[n] <= FullAlpha]_vars

(***************************************************************************)
(* The positions pass of the frame callback.                               *)
(***************************************************************************)
MaxFrames == 2

\* width / 2 and height / 2 of a graph 300 wide and 250 high
HalfWidth == 150
HalfHeight == 125

\* the coordinates the simulation gives a node
SimCoords == {-2, 0, 3}

PositionedNodes == {"A", "B"}

\* !v of a coordinate: undefined and 0 are falsy
Falsy(pos, i) == pos = <<>> \/ pos[i] = 0

\* if (!x || !y) continue
Skipped(pos) == Falsy(pos, 1) \/ Falsy(pos, 2)

Centred(pos) == <<pos[1] + HalfWidth, pos[2] + HalfHeight>>

\* the node loop of animate
PositionFrame ==
  /\ frames < MaxFrames
  /\ frames' = frames + 1
  /\ gfxPos' = [n \in DOMAIN gfxPos |->
                  IF Skipped(nodePos[n]) THEN gfxPos[n] ELSE Centred(nodePos[n])]
  /\ labelPos' = [n \in DOMAIN labelPos |->
                    IF Skipped(nodePos[n]) THEN labelPos[n] ELSE Centred(nodePos[n])]
  /\ UNCHANGED <<nodePos, paintVars, stepVars, wlVars, nodeVars, placeVars, tweenVars, docVars,
                 buildVars, mountVars, lifeVars>>

\* a step of the simulation moves node n
SimulationMoves(n, pos) ==
  /\ n \in DOMAIN nodePos
  /\ nodePos[n] # pos
  /\ nodePos' = [nodePos EXCEPT ![n] = pos]
  /\ UNCHANGED <<gfxPos, labelPos, frames, paintVars, stepVars, wlVars, nodeVars, placeVars,
                 tweenVars, docVars, buildVars, mountVars, lifeVars>>

\* the simulation has placed every node; circles and labels are at the origin
InitPositions ==
  /\ NoBuild /\ NoMount /\ NoLifecycle
  /\ NoNode /\ NoPlacement /\ NoTweenGroups /\ NoDocument
  /\ NoPaint /\ NoSteps /\ NoWorklist
  /\ nodePos \in [PositionedNodes -> SimCoords \X SimCoords]
  /\ gfxPos = [n \in PositionedNodes |-> <<0, 0>>]
  /\ labelPos = [n \in PositionedNodes |-> <<0, 0>>]
  /\ frames = 0

NextPositions ==
  \/ PositionFrame
  \/ \E n \in PositionedNodes, pos \in SimCoords \X SimCoords : SimulationMoves(n, pos)

SpecPositions == InitPositions /\ [][NextPositions]_vars

\* C26: every frame puts the circle and the label of every node whose
\* simulation position is defined, a coordinate 0 included, at
\* (x + width / 2, y + height / 2).
C26_FramePositionsEveryNode ==
  [][frames' # frames =>
       \A n \in DOMAIN nodePos :
         nodePos[n] # <<>> =>
           /\ gfxPos'[n] = <<nodePos[n][1] + HalfWidth, nodePos[n][2] + HalfHeight>>
           /\ labelPos'[n] = <<nodePos[n][1] + HalfWidth, nodePos[n][2] + HalfHeight>>]_vars

(***************************************************************************)
(* One renderGraph call step by step, with the two places where it can     *)
(* fail: JSON.parse of the configuration and await app.init.               *)
(***************************************************************************)
\* what a step of renderGraph leaves alone besides the mount
StepsUnchanged ==
  UNCHANGED <<cfgBlob, initOutcome, paintVars, posVars, wlVars, nodeVars, placeVars, tweenVars,
              docVars, lifeVars>>

\* JSON.parse(graph.dataset["cfg"]!) throws on a malformed blob
ParseConfig ==
  /\ mountStep = "called"
  /\ mountStep' = IF cfgBlob = "malformed" THEN "failed" ELSE "parsed"
  /\ UNCHANGED <<buildVars, mountVars>>
  /\ StepsUnchanged

\* the index is read and the graph of the page is built
BuildGraph(depth) ==
  /\ mountStep = "parsed"
  /\ RenderGraphBuild("A", depth, TRUE, {})

\* forceSimulation(graphData.nodes): the simulation starts its timer
CreateSimulation ==
  /\ mountStep = "parsed"
  /\ phase = "built"
  /\ mountStep' = "simulating"
  /\ simAlpha' = MaxAlpha
  /\ simTimer' = TRUE
  /\ UNCHANGED <<buildVars, cfgVars, hoverVars, styleVars, dragVars, simAlphaTarget,
                 loopVars, popVars, resVars>>
  /\ StepsUnchanged

\* document.addEventListener("keydown", onKeyDown) and ("keyup", onKeyUp)
AddKeyListeners ==
  /\ mountStep = "simulating"
  /\ mountStep' = "listening"
  /\ keyListeners' = TRUE
  /\ UNCHANGED <<buildVars, cfgVars, hoverVars, styleVars, dragVars, simVars, loopVars,
                 popVars, appDestroyCalls>>
  /\ StepsUnchanged

\* await app.init(...) settles
AppInitSettles ==
  /\ mountStep = "listening"
  /\ mountStep' = IF initOutcome = "rejects" THEN "failed" ELSE "initialised"
  /\ UNCHANGED <<buildVars, mountVars>>
  /\ StepsUnchanged

\* the rest of renderGraph: render records, first frame requested, the
\* teardown callback returned
ReturnCleanup ==
  /\ mountStep = "initialised"
  /\ mountStep' = "returned"
  /\ nodeActive' = [n \in Range(graphNodes) |-> FALSE]
  /\ linkActive' = [i \in 1..Len(graphLinks) |-> FALSE]
  /\ linkColor' = [i \in 1..Len(graphLinks) |-> "--lightgray"]
  /\ labelAlpha' = [n \in Range(graphNodes) |-> 0]
  /\ oldLabelOpacity' = [n \in Range(graphNodes) |-> 0]
  /\ animationRunning' = TRUE
  /\ rafPending' = 1
  /\ UNCHANGED <<buildVars, cfgVars, hoveredNodeId, hoveredNeighbours, tweens,
                 currentTransform, dragVars, simVars, stopAnimation, frameCount,
                 popVars, resVars>>
  /\ StepsUnchanged

\* a step of the simulation's timer while no "tick" listener is registered
SilentTick ==
  /\ simTimer
  /\ mountStep # "returned"
  /\ simAlpha' = AlphaAfterTick(simAlpha, simAlphaTarget)
  /\ simTimer' = ~SimCooled(simAlpha')
  /\ UNCHANGED <<mountStep, simAlphaTarget, buildVars, cfgVars, hoverVars, styleVars,
                 dragVars, loopVars, popVars, resVars>>
  /\ StepsUnchanged

\* renderGraph has just been called on a container
InitSteps ==
  /\ data \in IndicesOver({"A", "B"}, HoverEntries)
  /\ slug = "A"
  /\ cfgDepth = 0
  /\ showTags = FALSE
  /\ removeTags = {}
  /\ phase = "input"
  /\ neighbourhood = <<>>
  /\ graphNodes = <<>>
  /\ graphLinks = <<>>
  /\ NoMount /\ NoLifecycle
  /\ NoNode /\ NoPlacement /\ NoTweenGroups /\ NoDocument
  /\ NoPaint /\ NoPositions /\ NoWorklist
  /\ mountStep = "called"
  /\ cfgBlob \in {"well-formed", "malformed"}
  /\ initOutcome \in {"resolves", "rejects"}

NextSteps ==
  \/ ParseConfig
  \/ \E depth \in -1..MaxDepth : BuildGraph(depth)
  \/ CreateSimulation
  \/ AddKeyListeners
  \/ AppInitSettles
  \/ ReturnCleanup
  \/ SilentTick

SpecSteps == InitSteps /\ [][NextSteps]_vars

\* C30: a mount that fails, because the configuration blob is malformed or
\* because the initialisation of the rendering surface rejects, leaves no
\* document key listener attached and no simulation running.
C30_FailedMountLeavesNothing ==
  mountStep = "failed" => ~keyListeners /\ ~simTimer

(***************************************************************************)
(* The neighbourhood loop of renderGraph turn by turn, for depth >= 0.     *)
(***************************************************************************)
\* the variables of the loop as WorklistStep takes them
LoopState == [wl |-> worklist, depth |-> depthLeft, nb |-> neighbourhood]

\* one turn of while (depth >= 0 && wl.length > 0)
WorklistTurns ==
  /\ phase = "input"
  /\ WorklistRuns(LoopState)
  /\ LET st == WorklistStep(BuildLinks(data, showTags, removeTags), LoopState)
     IN  /\ worklist' = st.wl
         /\ depthLeft' = st.depth
         /\ neighbourhood' = st.nb
  /\ UNCHANGED <<data, slug, cfgDepth, showTags, removeTags, phase, graphNodes, graphLinks>>
  /\ UNCHANGED <<mountVars, lifeVars, nodeVars, placeVars, tweenVars, docVars,
                 paintVars, posVars, stepVars>>

\* the loop test fails: the node list and graphData are built
WorklistExits ==
  /\ phase = "input"
  /\ ~WorklistRuns(LoopState)
  /\ phase' = "built"
  /\ graphNodes' = BuildNodes(neighbourhood)
  /\ graphLinks' = BuildGraphLinks(BuildLinks(data, showTags, removeTags),
                                   neighbourhood, graphNodes')
  /\ UNCHANGED <<data, slug, cfgDepth, showTags, removeTags, neighbourhood, wlVars>>
  /\ UNCHANGED <<mountVars, lifeVars, nodeVars, placeVars, tweenVars, docVars,
                 paintVars, posVars, stepVars>>

\* wl = [slug, "__SENTINEL"] over any index of the pages A and B, any focal
\* page (C is in none of them), any depth >= 0
InitWorklist ==
  /\ data \in UNION {IndicesOver(keys, MaxEntries) : keys \in SUBSET {"A", "B"}}
  /\ slug \in Pages
  /\ cfgDepth \in 0..MaxDepth
  /\ showTags \in BOOLEAN
  /\ removeTags = {}
  /\ phase = "input"
  /\ neighbourhood = <<>>
  /\ graphNodes = <<>>
  /\ graphLinks = <<>>
  /\ NoMount /\ NoLifecycle
  /\ NoNode /\ NoPlacement /\ NoTweenGroups /\ NoDocument
  /\ NoPaint /\ NoPositions /\ NoSteps
  /\ worklist = <<slug, Sentinel>>
  /\ depthLeft = cfgDepth

NextWorklist == WorklistTurns \/ WorklistExits

\* the loop is straight-line code: a turn that can be taken is taken
SpecWorklist == InitWorklist /\ [][NextWorklist]_vars /\ WF_vars(NextWorklist)

\* C31: for every index, cyclic or with self-links, every focal page, linked
\* or not, in the index or not, and every depth >= 0, the neighbourhood loop
\* comes to its end, and the remaining depth goes down by exactly one at each
\* sentinel, that is once per frontier layer, and at no other turn.
C31_WorklistTerminates ==
  /\ <>(phase = "built")
  /\ [][worklist' # worklist =>
          depthLeft' = IF Head(worklist) = Sentinel THEN depthLeft - 1 ELSE depthLeft]_vars

\* the loop has ended at the largest depth over an index with a self-link
C31_Witness ==
  /\ phase = "built"
  /\ cfgDepth = MaxDepth
  /\ depthLeft = -1
  /\ \E k \in DOMAIN data : k \in Range(data[k].links)

====
